---- MODULE Spec2Model ----
(***************************************************************************)
(* Model of client.go, the CONTINUATION-flood client: main launches        *)
(* numConns goroutines running testContinuationFlood; each one resets the  *)
(* shared stream counter, dials, performs the HTTP/2 handshake, starts a   *)
(* background reader, recvFrames, reads, sends one HEADERS frame and then floods the stream   *)
(* with CONTINUATION frames until its timer fires or a write reports       *)
(* EPIPE.  The transport (TLS connection, framer) is the environment: every *)
(* write and read returns one of the outcomes the library can return.      *)
(***************************************************************************)
EXTENDS Integers, Sequences, FiniteSets, TLC

\* ---- bounds of the model ------------------------------------------------
\* largest value of the -connections flag explored
MaxConns == 2
\* largest number of iterations of the loop of sendRequests that take the default
\* branch, in a run with one connection
MaxCont == 2
\* largest number of frame writes the transport fails, in a run with one connection
MaxFaults == 2
\* largest number of ReadFrame calls of the background readers, all together,
\* that return, in a run with one connection
MaxReads == 2

\* ---- program constants --------------------------------------------------
\* streamCounter = 1 (testContinuationFlood)
StreamCounterSeed == 1
\* atomic.AddUint32(&streamCounter, 2)
StreamCounterStep == 2

VARIABLES
    numConns,           \* flag -connections
    streamCounter,      \* package variable streamCounter (uint32)
    sentHeaders,        \* package variable sentHeaders (int32)
    sentContinuation,   \* package variable sentContinuation (int32)
    pc,                 \* pc[d]: position of goroutine testContinuationFlood d
    streamID,           \* streamID[d]: local of sendRequests (0: not yet allocated)
    continuationCount,  \* continuationCount[d]: local of sendRequests
    timer,              \* timer[d]: state of the time.Timer of sendRequests
    attempts,           \* attempts[d]: the frame writes issued by d after the handshake, in order
    reader,             \* reader[d]: "none", or the background reader of d "running" or "done"
    recvFrames,         \* package variable recvFrames (int32)
    reads,              \* reads[d]: what each ReadFrame of the reader of d returned, in order
    doneChanLen,        \* number of values buffered in doneChan
    doneChanClosed,     \* whether doneChan is closed
    wgCount,            \* counter of the sync.WaitGroup
    mainPc,             \* position of main
    mainI,              \* loop variable i of main (both loops)
    signals,            \* signals[d]: completion signals d has published on doneChan
    signalsReceived,    \* completion signals main has taken out of doneChan
    summary,            \* what printSummary printed (<<>>: nothing yet)
    exited,             \* "running", or how the process ended
    faults,             \* frame writes failed by the transport so far
    allocs              \* the stream IDs returned by atomic.AddUint32, in order

vars == <<numConns, streamCounter, sentHeaders, sentContinuation, pc, streamID,
          continuationCount, timer, attempts, reader, recvFrames, reads, doneChanLen, doneChanClosed,
          wgCount, mainPc, mainI, signals, signalsReceived, summary, exited,
          faults, allocs>>

Conns == 1..numConns

\* ---- helpers ------------------------------------------------------------
\* outcomes of a frame write: nil, an error wrapping syscall.EPIPE, any other error
WriteResults == {"ok", "EPIPE", "other"}

\* the exploration budget per run: each further connection takes one loop
\* iteration per driver and one failed write off it
ContLimit == MaxCont - (numConns - 1)
FaultLimit == MaxFaults - (numConns - 1)
ReadLimit == MaxReads - (numConns - 1)

\* the outcomes the transport may still produce: failures only within the budget
WriteOutcomes == IF faults < FaultLimit THEN WriteResults ELSE {"ok"}

\* what a ReadFrame of the background reader returns: a frame, io.EOF, or any
\* other error
ReadResults == {"frame", "EOF", "other"}

\* a reader that gives up on every error
ReaderStopsOnAnyError(res) == res # "frame"

\* err == io.EOF: the reader returns
ReaderStops(res) == res = "EOF"

\* a count taken whatever ReadFrame returned
ReadCountedAlways(res) == TRUE

\* the else branch of err != nil: the frame is counted
ReadCounted(res) == res = "frame"

\* frames the peer may send first, or a read error
FirstReads == {"SETTINGS", "OTHERFRAME", "readerr"}

\* an allocation in steps of one
AtomicAddOne(v, delta) == v + 1

\* atomic.AddUint32(addr, delta): the new value.  The counter is a uint32 and
\* wraps at 2^32, which takes 2^31 allocations, one per connection: out of reach
\* of any run, and beyond the integers of the model checker
AtomicAddUint32(v, delta) == v + delta

\* a test that never recognises the broken pipe
IsEPIPENever(err) == FALSE

\* a test that takes every error for a broken pipe
IsEPIPEAnyError(err) == err # "ok"

\* errors.Is(err, syscall.EPIPE)
IsEPIPE(err) == err = "EPIPE"

\* a count taken whatever the write returned
WriteCountedAlways(err) == TRUE

\* whether a write that returned err is counted (err == nil)
WriteSucceeded(err) == err = "ok"

\* a wait that never returns
WaitGroupNeverZero == wgCount < 0

\* a wait that returns without waiting
WaitGroupNoWait == TRUE

\* wg.Wait() returns when the counter is zero
WaitGroupZero == wgCount = 0

\* a driver that gives up when its HEADERS write failed
AfterSendHeaderAborts(err) == IF err = "ok" THEN "newTimer" ELSE "deferDone"

\* where sendRequests goes on after sendHeader returned: into the loop, whatever
\* the HEADERS write returned (sendHeader only prints the error)
AfterSendHeader(err) == "newTimer"

\* a driver that goes from the handshake to sendRequests, starting no reader
AfterAckSendsAtOnce == "sendHeader"

\* where testContinuationFlood goes on after the SETTINGS ACK: the go statement
\* of the background reader, which comes before sendRequests
AfterAck == "spawn"

\* an index that advances on successful writes only
NextCountOnSuccess(c, err) == IF err = "ok" THEN c + 1 ELSE c

\* continuationCount++ after a send that was not a broken pipe, failed or not
NextContinuationCount(c, err) == c + 1

\* a channel one slot short
DoneChanCapShort == numConns - 1

\* doneChan := make(chan struct{}, numConns)
DoneChanCap == numConns

\* a select that takes the default branch whatever the timer did
TimerReadyNever(t) == FALSE

\* case <-timer.C is ready: the expiry has been delivered and not yet taken
TimerReady(t) == t = "fired"

\* the timer branch falling through to the next iteration
AfterFinalLoops == "select"

\* where the timer branch of the loop goes after its send: return, that is the
\* deferred send on doneChan
AfterFinal == "deferDone"

\* a frame record with END_HEADERS always set
FrameEndHeadersSet(kind, sid, endHeaders, index, err) ==
    [frame |-> kind, streamID |-> sid, endHeaders |-> TRUE,
     index |-> index, err |-> err]

\* the record of one write call on the framer
Frame(kind, sid, endHeaders, index, err) ==
    [frame |-> kind, streamID |-> sid, endHeaders |-> endHeaders,
     index |-> index, err |-> err]

\* an error that is logged without ending the process
FatalOnlyLogs == exited' = exited

\* log.Fatal / log.Fatalf: print and os.Exit(1); every goroutine stops
Fatal == exited' = "exit1"

Init ==
    /\ numConns \in 1..MaxConns
    /\ streamCounter = 0
    /\ sentHeaders = 0
    /\ sentContinuation = 0
    /\ pc = [d \in Conns |-> "idle"]
    /\ streamID = [d \in Conns |-> 0]
    /\ continuationCount = [d \in Conns |-> 0]
    /\ timer = [d \in Conns |-> "none"]
    /\ attempts = [d \in Conns |-> <<>>]
    /\ reader = [d \in Conns |-> "none"]
    /\ recvFrames = 0
    /\ reads = [d \in Conns |-> <<>>]
    /\ doneChanLen = 0
    /\ doneChanClosed = FALSE
    /\ wgCount = numConns
    /\ mainPc = "launch"
    /\ mainI = 0
    /\ signals = [d \in Conns |-> 0]
    /\ signalsReceived = 0
    /\ summary = <<>>
    /\ exited = "running"
    /\ faults = 0
    /\ allocs = <<>>

\* ---- main ---------------------------------------------------------------
\* for i := 0; i < numConns; i++ { go testContinuationFlood(doneChan, &wg); Sleep }
Launch ==
    /\ exited = "running"
    /\ mainPc = "launch"
    /\ mainI < numConns
    /\ pc' = [pc EXCEPT ![mainI + 1] = "start"]
    /\ mainI' = mainI + 1
    /\ mainPc' = IF mainI + 1 < numConns THEN "launch" ELSE "wait"
    /\ UNCHANGED <<numConns, streamCounter, sentHeaders, sentContinuation, streamID,
                   continuationCount, timer, attempts, reader, recvFrames, reads, doneChanLen,
                   doneChanClosed, wgCount, signals, signalsReceived, summary,
                   exited, faults, allocs>>

\* wg.Wait()
WgWait ==
    /\ exited = "running"
    /\ mainPc = "wait"
    /\ WaitGroupZero
    /\ mainPc' = "close"
    /\ UNCHANGED <<numConns, streamCounter, sentHeaders, sentContinuation, pc, streamID,
                   continuationCount, timer, attempts, reader, recvFrames, reads, doneChanLen,
                   doneChanClosed, wgCount, mainI, signals, signalsReceived, summary,
                   exited, faults, allocs>>

\* close(doneChan)
CloseDoneChan ==
    /\ exited = "running"
    /\ mainPc = "close"
    /\ doneChanClosed' = TRUE
    /\ mainPc' = "recv"
    /\ mainI' = 0
    /\ UNCHANGED <<numConns, streamCounter, sentHeaders, sentContinuation, pc, streamID,
                   continuationCount, timer, attempts, reader, recvFrames, reads, doneChanLen,
                   wgCount, signals, signalsReceived, summary, exited, faults, allocs>>

\* for i := 0; i < numConns; i++ { <-doneChan }: a buffered value if there is one,
\* the zero value at once if the channel is closed and empty, else main blocks
RecvDone ==
    /\ exited = "running"
    /\ mainPc = "recv"
    /\ mainI < numConns
    /\ doneChanLen > 0 \/ doneChanClosed
    /\ IF doneChanLen > 0
         THEN /\ doneChanLen' = doneChanLen - 1
              /\ signalsReceived' = signalsReceived + 1
         ELSE UNCHANGED <<doneChanLen, signalsReceived>>
    /\ mainI' = mainI + 1
    /\ mainPc' = IF mainI + 1 < numConns THEN "recv" ELSE "summary"
    /\ UNCHANGED <<numConns, streamCounter, sentHeaders, sentContinuation, pc, streamID,
                   continuationCount, timer, attempts, reader, recvFrames, reads, doneChanClosed,
                   wgCount, signals, summary, exited, faults, allocs>>

\* printSummary()
PrintSummary ==
    /\ exited = "running"
    /\ mainPc = "summary"
    /\ summary' = <<[headers |-> sentHeaders, continuation |-> sentContinuation,
                     received |-> recvFrames]>>
    /\ mainPc' = "return"
    /\ UNCHANGED <<numConns, streamCounter, sentHeaders, sentContinuation, pc, streamID,
                   continuationCount, timer, attempts, reader, recvFrames, reads, doneChanLen,
                   doneChanClosed, wgCount, mainI, signals, signalsReceived,
                   exited, faults, allocs>>

\* main returns: the process exits with code 0
MainReturn ==
    /\ exited = "running"
    /\ mainPc = "return"
    /\ exited' = "exit0"
    /\ UNCHANGED <<numConns, streamCounter, sentHeaders, sentContinuation, pc, streamID,
                   continuationCount, timer, attempts, reader, recvFrames, reads, doneChanLen,
                   doneChanClosed, wgCount, mainPc, mainI, signals, signalsReceived,
                   summary, faults, allocs>>

\* ---- testContinuationFlood ----------------------------------------------
mainVars == <<mainPc, mainI, signalsReceived, summary, doneChanClosed>>
sendVars == <<streamID, continuationCount, timer, attempts, faults, allocs,
              sentHeaders, sentContinuation>>
doneVars == <<doneChanLen, wgCount, signals>>

\* streamCounter = 1: a plain write to the shared counter, first statement of
\* every testContinuationFlood goroutine
Start(d) ==
    /\ exited = "running"
    /\ pc[d] = "start"
    /\ streamCounter' = StreamCounterSeed
    /\ pc' = [pc EXCEPT ![d] = "dial"]
    /\ UNCHANGED <<numConns, reader, recvFrames, reads, exited, mainVars, sendVars, doneVars>>

\* one fallible step of the handshake: on success go on to next, on failure the
\* goroutine is in log.Fatal
HandshakeStep(d, at, next, ok) ==
    /\ exited = "running"
    /\ pc[d] = at
    /\ IF ok THEN /\ pc' = [pc EXCEPT ![d] = next]
                  /\ UNCHANGED exited
             ELSE /\ Fatal
                  /\ pc' = [pc EXCEPT ![d] = "fatal"]
    /\ UNCHANGED <<numConns, streamCounter, reader, recvFrames, reads, mainVars, sendVars, doneVars>>

\* hc := NewHttp2Client(urlStr): url.Parse and tls.Dial, log.Fatalf on error
NewHttp2Client(d) == \E ok \in BOOLEAN : HandshakeStep(d, "dial", "preface", ok)

\* hc.writePreface(): an error or a short write is fatal
WritePreface(d) == \E ok \in BOOLEAN : HandshakeStep(d, "preface", "settings", ok)

\* hc.writeInitialSettings()
WriteInitialSettings(d) == \E ok \in BOOLEAN : HandshakeStep(d, "settings", "want", ok)

\* hc.wantSettings(): the first frame read must be a SETTINGS frame
WantSettings(d) == \E f \in FirstReads : HandshakeStep(d, "want", "ack", f = "SETTINGS")

\* hc.writeSettingsAck()
WriteSettingsAck(d) == \E ok \in BOOLEAN : HandshakeStep(d, "ack", AfterAck, ok)

\* go func() { for { hc.fr.ReadFrame() ... } }()
SpawnReader(d) ==
    /\ exited = "running"
    /\ pc[d] = "spawn"
    /\ reader' = [reader EXCEPT ![d] = "running"]
    /\ pc' = [pc EXCEPT ![d] = "sendHeader"]
    /\ UNCHANGED <<recvFrames, reads, numConns, streamCounter, exited, mainVars, sendVars, doneVars>>

\* streamID := hc.sendHeader(): allocate the stream ID, write HEADERS, count it
\* when the write succeeded, return the ID whatever the write returned
SendHeader(d) ==
    /\ exited = "running"
    /\ pc[d] = "sendHeader"
    /\ \E err \in WriteOutcomes :
         LET id == AtomicAddUint32(streamCounter, StreamCounterStep) IN
         /\ streamCounter' = id
         /\ allocs' = Append(allocs, id)
         /\ streamID' = [streamID EXCEPT ![d] = id]
         /\ attempts' = [attempts EXCEPT ![d] =
                            Append(@, Frame("HEADERS", id, FALSE, 0, err))]
         /\ sentHeaders' = IF WriteSucceeded(err) THEN sentHeaders + 1 ELSE sentHeaders
         /\ faults' = IF err = "ok" THEN faults ELSE faults + 1
         /\ pc' = [pc EXCEPT ![d] = AfterSendHeader(err)]
    /\ UNCHANGED <<numConns, reader, recvFrames, reads, exited, mainVars, doneVars, continuationCount,
                   timer, sentContinuation>>

\* continuationCount := 0; timer := time.NewTimer(timeLimit seconds)
NewTimer(d) ==
    /\ exited = "running"
    /\ pc[d] = "newTimer"
    /\ continuationCount' = [continuationCount EXCEPT ![d] = 0]
    /\ timer' = [timer EXCEPT ![d] = "running"]
    /\ pc' = [pc EXCEPT ![d] = "select"]
    /\ UNCHANGED <<numConns, streamCounter, reader, recvFrames, reads, exited, mainVars, doneVars,
                   streamID, attempts, faults, allocs, sentHeaders, sentContinuation>>

\* the runtime delivers the expiry on timer.C, at any time after NewTimer
TimerFire(d) ==
    /\ exited = "running"
    /\ timer[d] = "running"
    /\ timer' = [timer EXCEPT ![d] = "fired"]
    /\ UNCHANGED <<numConns, streamCounter, pc, reader, recvFrames, reads, exited, mainVars, doneVars,
                   streamID, continuationCount, attempts, faults, allocs,
                   sentHeaders, sentContinuation>>

\* select { case <-timer.C: ... default: ... }: the timer case when a value is
\* ready on timer.C, the default case otherwise
Select(d) ==
    /\ exited = "running"
    /\ pc[d] = "select"
    /\ IF TimerReady(timer[d])
         THEN /\ timer' = [timer EXCEPT ![d] = "drained"]
              /\ pc' = [pc EXCEPT ![d] = "sendFinal"]
         ELSE /\ continuationCount[d] < ContLimit
              /\ pc' = [pc EXCEPT ![d] = "sendCont"]
              /\ UNCHANGED timer
    /\ UNCHANGED <<numConns, streamCounter, reader, recvFrames, reads, exited, mainVars, doneVars,
                   streamID, continuationCount, attempts, faults, allocs,
                   sentHeaders, sentContinuation>>

\* hc.sendContinuationFrames(streamID, contCount, endHeader) returning err
SendContinuationFrames(d, sid, contCount, endHeader, err) ==
    /\ attempts' = [attempts EXCEPT ![d] =
                       Append(@, Frame("CONTINUATION", sid, endHeader, contCount, err))]
    /\ sentContinuation' = IF WriteSucceeded(err) THEN sentContinuation + 1
                                                  ELSE sentContinuation
    /\ faults' = IF err = "ok" THEN faults ELSE faults + 1

\* default branch of the loop: send with END_HEADERS=false; return on EPIPE,
\* else continuationCount++ and loop
FloodContinuation(d) ==
    /\ exited = "running"
    /\ pc[d] = "sendCont"
    /\ \E err \in WriteOutcomes :
         /\ SendContinuationFrames(d, streamID[d], continuationCount[d], FALSE, err)
         /\ IF IsEPIPE(err)
              THEN /\ pc' = [pc EXCEPT ![d] = "deferDone"]
                   /\ UNCHANGED continuationCount
              ELSE /\ continuationCount' = [continuationCount EXCEPT ![d] =
                                                NextContinuationCount(@, err)]
                   /\ pc' = [pc EXCEPT ![d] = "select"]
    /\ UNCHANGED <<numConns, streamCounter, reader, recvFrames, reads, exited, mainVars, doneVars,
                   streamID, timer, allocs, sentHeaders>>

\* timer branch of the loop: send with END_HEADERS=true, ignore the result, return
FinalContinuation(d) ==
    /\ exited = "running"
    /\ pc[d] = "sendFinal"
    /\ \E err \in WriteOutcomes :
         SendContinuationFrames(d, streamID[d], continuationCount[d], TRUE, err)
    /\ pc' = [pc EXCEPT ![d] = AfterFinal]
    /\ UNCHANGED <<numConns, streamCounter, reader, recvFrames, reads, exited, mainVars, doneVars,
                   streamID, continuationCount, timer, allocs, sentHeaders>>

\* defer func() { doneChan <- struct{}{} }(): a send on a closed channel panics,
\* a send on a full channel blocks
DeferDone(d) ==
    /\ exited = "running"
    /\ pc[d] = "deferDone"
    /\ doneChanClosed \/ doneChanLen < DoneChanCap
    /\ IF doneChanClosed
         THEN /\ exited' = "panic"
              /\ UNCHANGED <<pc, doneChanLen, signals>>
         ELSE /\ doneChanLen' = doneChanLen + 1
              /\ signals' = [signals EXCEPT ![d] = @ + 1]
              /\ pc' = [pc EXCEPT ![d] = "wgDone"]
              /\ UNCHANGED exited
    /\ UNCHANGED <<numConns, streamCounter, reader, recvFrames, reads, mainVars, sendVars, wgCount>>

\* defer wg.Done()
WgDone(d) ==
    /\ exited = "running"
    /\ pc[d] = "wgDone"
    /\ wgCount' = wgCount - 1
    /\ pc' = [pc EXCEPT ![d] = "returned"]
    /\ UNCHANGED <<numConns, streamCounter, reader, recvFrames, reads, exited, mainVars, sendVars,
                   doneChanLen, signals>>

Next ==
    \/ Launch
    \/ WgWait
    \/ CloseDoneChan
    \/ RecvDone
    \/ PrintSummary
    \/ MainReturn
    \/ \E d \in Conns : Start(d)
    \/ \E d \in Conns : NewHttp2Client(d)
    \/ \E d \in Conns : WritePreface(d)
    \/ \E d \in Conns : WriteInitialSettings(d)
    \/ \E d \in Conns : WantSettings(d)
    \/ \E d \in Conns : WriteSettingsAck(d)
    \/ \E d \in Conns : SpawnReader(d)
    \/ \E d \in Conns : SendHeader(d)
    \/ \E d \in Conns : NewTimer(d)
    \/ \E d \in Conns : TimerFire(d)
    \/ \E d \in Conns : Select(d)
    \/ \E d \in Conns : FloodContinuation(d)
    \/ \E d \in Conns : FinalContinuation(d)
    \/ \E d \in Conns : DeferDone(d)
    \/ \E d \in Conns : WgDone(d)

Spec == Init /\ [][Next]_vars

\* ---- the background reader ----------------------------------------------
\* number of ReadFrame calls of the readers of drivers 1..n that have returned
RECURSIVE ReadsTotal(_)
ReadsTotal(n) == IF n = 0 THEN 0 ELSE Len(reads[n]) + ReadsTotal(n - 1)

\* one iteration of for { frame, err := hc.fr.ReadFrame() ... }: return on io.EOF,
\* print and read again on any other error, count and print the frame otherwise
ReaderRead(d) ==
    /\ exited = "running"
    /\ reader[d] = "running"
    /\ ReadsTotal(numConns) < ReadLimit
    /\ \E res \in ReadResults :
         /\ reads' = [reads EXCEPT ![d] = Append(@, res)]
         /\ recvFrames' = IF ReadCounted(res) THEN recvFrames + 1 ELSE recvFrames
         /\ reader' = [reader EXCEPT ![d] = IF ReaderStops(res) THEN "done" ELSE "running"]
    /\ UNCHANGED <<numConns, streamCounter, pc, exited, mainVars, sendVars, doneVars>>

\* the program with its background readers, over a transport that fails no
\* frame write (the readers do not depend on the writes)
NextReader ==
    \/ Next /\ faults' = faults
    \/ \E d \in Conns : ReaderRead(d)

SpecReader == Init /\ [][NextReader]_vars

\* ---- scheduling ------------------------------------------------------------
\* the steps of main
MainStep ==
    \/ Launch
    \/ WgWait
    \/ CloseDoneChan
    \/ RecvDone
    \/ PrintSummary
    \/ MainReturn

\* the steps of goroutine testContinuationFlood d
DriverStep(d) ==
    \/ Start(d)
    \/ NewHttp2Client(d)
    \/ WritePreface(d)
    \/ WriteInitialSettings(d)
    \/ WantSettings(d)
    \/ WriteSettingsAck(d)
    \/ SpawnReader(d)
    \/ SendHeader(d)
    \/ NewTimer(d)
    \/ Select(d)
    \/ FloodContinuation(d)
    \/ FinalContinuation(d)
    \/ DeferDone(d)
    \/ WgDone(d)

\* the Go scheduler runs every goroutine that can run, every call into the
\* transport returns, and the runtime delivers every timer's expiry
Fairness ==
    /\ WF_vars(MainStep)
    /\ \A d \in 1..MaxConns : WF_vars(d \in Conns /\ DriverStep(d))
    /\ \A d \in 1..MaxConns : WF_vars(d \in Conns /\ TimerFire(d))

\* the program under fair scheduling; in the runs with the most connections the
\* transport fails no frame write
FairNext == Next /\ (numConns = MaxConns => faults' = faults)

FairSpec == Init /\ [][FairNext]_vars /\ Fairness

\* ---- observations used by the properties ---------------------------------
\* the frames d has placed on the wire: the writes that succeeded, in order
Wire(d) == SelectSeq(attempts[d], LAMBDA f : f.err = "ok")

\* positions of a goroutine that has left sendRequests' loop and is returning
Returning == {"deferDone", "wgDone", "returned"}

\* positions of a goroutine before the handshake is complete
InHandshake == {"start", "dial", "preface", "settings", "want", "ack"}

\* a write of the default branch of the flood loop
IsFlood(f) == f.frame = "CONTINUATION" /\ ~f.endHeaders

\* a write of the timer branch
IsFinal(f) == f.frame = "CONTINUATION" /\ f.endHeaders

\* the flood loop of d met a broken pipe
BrokenPipe(d) == \E i \in 1..Len(attempts[d]) :
                     IsFlood(attempts[d][i]) /\ attempts[d][i].err = "EPIPE"

\* number of writes of kind `kind` in log a that succeeded
RECURSIVE OkCount(_, _)
OkCount(a, kind) ==
    IF a = <<>> THEN 0
    ELSE (IF a[1].frame = kind /\ a[1].err = "ok" THEN 1 ELSE 0) + OkCount(Tail(a), kind)

\* the same over the drivers 1..n
RECURSIVE OkTotal(_, _)
OkTotal(n, kind) ==
    IF n = 0 THEN 0 ELSE OkCount(attempts[n], kind) + OkTotal(n - 1, kind)

\* w is made of CONTINUATION frames on stream sid, END_HEADERS set on the last at most
ContinuationsOn(w, sid) ==
    \A i \in 1..Len(w) :
        /\ w[i].frame = "CONTINUATION"
        /\ w[i].streamID = sid
        /\ w[i].endHeaders => i = Len(w)

\* the final frame is on the wire of d only after the timer branch was taken and
\* no broken pipe was met
FinalOnlyOnExpiry(d) ==
    (\E i \in 1..Len(Wire(d)) : IsFinal(Wire(d)[i])) =>
        (timer[d] = "drained" /\ ~BrokenPipe(d))

\* ---- properties -----------------------------------------------------------

\* C1: the stream identifiers returned by sendHeader to the drivers are pairwise
\* distinct: no two drivers use the same stream ID.
C1_DistinctStreamIDs ==
    \A d, e \in Conns :
        (d # e /\ streamID[d] # 0 /\ streamID[e] # 0) => streamID[d] # streamID[e]

\* C2 (as claimed): once a driver has issued its HEADERS write, its wire holds
\* exactly one HEADERS frame with END_HEADERS=false, first, then CONTINUATION
\* frames on the same stream with END_HEADERS=false, then at most one with
\* END_HEADERS=true, which is there only if the timer expired and no broken
\* pipe came before.
C2_WireSequenceAsClaimed ==
    \A d \in Conns :
        attempts[d] # <<>> =>
            LET w == Wire(d) IN
            /\ Len(w) >= 1
            /\ w[1].frame = "HEADERS"
            /\ ~w[1].endHeaders
            /\ ContinuationsOn(Tail(w), w[1].streamID)
            /\ FinalOnlyOnExpiry(d)

\* C2 (amended): the wire of a driver holds at most one HEADERS frame with
\* END_HEADERS=false, first: exactly one when the HEADERS write succeeded and
\* none when it failed (the driver floods all the same); then CONTINUATION
\* frames with END_HEADERS=false, then at most one with END_HEADERS=true; every
\* CONTINUATION carries the stream ID of the driver's HEADERS write, and the
\* END_HEADERS=true frame is there only if the timer expired and no broken pipe
\* came before.
C2_WireSequence ==
    \A d \in Conns :
        attempts[d] # <<>> =>
            LET w == Wire(d)
                h == attempts[d][1]
            IN
            /\ h.frame = "HEADERS" /\ ~h.endHeaders /\ h.streamID = streamID[d]
            /\ IF h.err = "ok"
                 THEN w # <<>> /\ w[1] = h /\ ContinuationsOn(Tail(w), h.streamID)
                 ELSE ContinuationsOn(w, h.streamID)
            /\ FinalOnlyOnExpiry(d)

\* a driver that returned after its HEADERS write failed and that put both flood
\* frames and the final frame on the wire
C2_Witness ==
    \E d \in Conns :
        /\ pc[d] = "returned"
        /\ attempts[d][1].err # "ok"
        /\ Len(Wire(d)) >= 2
        /\ IsFinal(Wire(d)[Len(Wire(d))])

\* C3: a flood CONTINUATION write that fails with EPIPE is the last write the
\* driver issues: it leaves the loop at once and never sends the final frame.
C3_NothingAfterBrokenPipe ==
    \A d \in Conns :
        \A i \in 1..Len(attempts[d]) :
            (IsFlood(attempts[d][i]) /\ attempts[d][i].err = "EPIPE") =>
                (i = Len(attempts[d]) /\ pc[d] \in Returning)

\* a driver that met the broken pipe has returned and its timer has expired since
C3_Witness ==
    \E d \in Conns :
        /\ BrokenPipe(d)
        /\ pc[d] = "returned"
        /\ timer[d] = "fired"

\* C4: every driver publishes exactly one completion signal, whichever way it
\* ends, and the summary is printed only after numConns signals have been
\* published and received.
C4_OneSignalEach ==
    /\ \A d \in Conns :
          signals[d] = (IF pc[d] \in {"wgDone", "returned"} THEN 1 ELSE 0)
    /\ summary # <<>> =>
          /\ \A d \in Conns : signals[d] = 1
          /\ signalsReceived = numConns

\* the summary is printed after one driver ended on a broken pipe and another on
\* its timer
C4_Witness ==
    /\ summary # <<>>
    /\ \E d, e \in Conns : BrokenPipe(d) /\ timer[e] = "drained"

\* C5: a driver whose loop takes the timer branch issues exactly one
\* CONTINUATION write with END_HEADERS=true and returns: that write is its
\* last, and it had issued none before.
C5_OneFinalThenReturn ==
    \A d \in Conns :
        timer[d] = "drained" =>
            LET a == attempts[d]
                finals == {i \in 1..Len(a) : a[i].endHeaders}
            IN
            /\ ~BrokenPipe(d)
            /\ pc[d] \in {"sendFinal"} \cup Returning
            /\ pc[d] = "sendFinal" => finals = {}
            /\ pc[d] \in Returning => (finals = {Len(a)} /\ IsFinal(a[Len(a)]))

\* a driver has returned after flood frames and the final frame
C5_Witness ==
    \E d \in Conns :
        /\ timer[d] = "drained"
        /\ pc[d] = "returned"
        /\ Len(attempts[d]) >= 3

\* C6: when a handshake step of some driver fails, the process has ended with
\* exit code 1 at that point: that driver has sent nothing, no summary has been
\* printed, and no step of any goroutine (no further write, no summary) is
\* possible any more.
C6_FatalHandshake ==
    /\ \A d \in Conns : pc[d] \in InHandshake \cup {"fatal"} => attempts[d] = <<>>
    /\ (\E d \in Conns : pc[d] = "fatal") =>
          /\ exited = "exit1"
          /\ summary = <<>>
          /\ ~ENABLED Next

\* the handshake of one driver failed while another driver was flooding
C6_Witness ==
    \E d, e \in Conns :
        /\ pc[d] = "fatal"
        /\ Len(attempts[e]) >= 2

\* C7: each allocation returns a value exactly 2 greater than the previous
\* allocation of the process.
C7_AllocationsIncreaseByTwo ==
    \A i \in 2..Len(allocs) : allocs[i] = allocs[i - 1] + 2

\* C8: every stream identifier allocated by sendHeader is odd.
C8_StreamIDsOdd ==
    /\ \A i \in 1..Len(allocs) : allocs[i] % 2 = 1
    /\ \A d \in Conns : streamID[d] # 0 => streamID[d] % 2 = 1

\* two drivers have allocated and the second allocation built on the first
C8_Witness ==
    /\ Len(allocs) >= 2
    /\ \E d \in Conns : streamID[d] = StreamCounterSeed + 2 * StreamCounterStep

\* C9: the counters equal the numbers of HEADERS and CONTINUATION writes that
\* succeeded, over all drivers, and so do the numbers the summary prints; a
\* failed write is not counted.
C9_NoLostCount ==
    /\ sentHeaders = OkTotal(numConns, "HEADERS")
    /\ sentContinuation = OkTotal(numConns, "CONTINUATION")
    /\ summary # <<>> =>
          /\ summary[1].headers = OkTotal(numConns, "HEADERS")
          /\ summary[1].continuation = OkTotal(numConns, "CONTINUATION")

\* the summary is printed after two drivers sent frames and a write failed
C9_Witness ==
    /\ summary # <<>>
    /\ numConns >= 2
    /\ faults >= 1
    /\ summary[1].continuation >= 2

\* C10: a flood write that fails with an error other than EPIPE does not end
\* the loop: the driver is still in the loop, or its next write is the next
\* flood frame or the final frame; and a driver that left the loop without a
\* broken pipe sent the final frame last.
C10_OtherErrorsKeepLooping ==
    \A d \in Conns :
        LET a == attempts[d] IN
        /\ \A i \in 1..Len(a) :
              (IsFlood(a[i]) /\ a[i].err = "other") =>
                  IF i = Len(a)
                    THEN pc[d] \in {"select", "sendCont", "sendFinal"}
                    ELSE /\ a[i + 1].frame = "CONTINUATION"
                         /\ a[i + 1].index = a[i].index + 1
        /\ (pc[d] \in Returning /\ ~BrokenPipe(d)) => IsFinal(a[Len(a)])

\* a driver has returned after a failed flood write, a further flood write and
\* the final frame
C10_Witness ==
    \E d \in Conns :
        /\ pc[d] = "returned"
        /\ \E i \in 1..Len(attempts[d]) :
              /\ IsFlood(attempts[d][i]) /\ attempts[d][i].err = "other"
              /\ i + 1 < Len(attempts[d])
        /\ IsFinal(attempts[d][Len(attempts[d])])

\* C11: when the HEADERS write fails the driver does not abort: sentHeaders is
\* not incremented, the stream ID stays allocated, and the driver goes through
\* the flood loop, every later write being a CONTINUATION on that stream ID; it
\* returns only after at least one CONTINUATION write.
C11_FailedHeadersStillFloods ==
    /\ sentHeaders = OkTotal(numConns, "HEADERS")
    /\ \A d \in Conns :
          LET a == attempts[d] IN
          (a # <<>> /\ a[1].err # "ok") =>
              /\ streamID[d] = a[1].streamID
              /\ \E i \in 1..Len(allocs) : allocs[i] = streamID[d]
              /\ pc[d] \in {"newTimer", "select", "sendCont", "sendFinal"} \cup Returning
              /\ \A i \in 2..Len(a) :
                    a[i].frame = "CONTINUATION" /\ a[i].streamID = streamID[d]
              /\ pc[d] \in Returning =>
                    (Len(a) >= 2 /\ (IsFinal(a[Len(a)]) \/ BrokenPipe(d)))

\* a driver whose HEADERS write failed has flooded, sent the final frame and returned
C11_Witness ==
    \E d \in Conns :
        /\ pc[d] = "returned"
        /\ attempts[d][1].err # "ok"
        /\ Len(attempts[d]) >= 3
        /\ IsFinal(attempts[d][Len(attempts[d])])
        /\ sentHeaders = 0

\* number of frames in the read log r
RECURSIVE FrameCount(_)
FrameCount(r) ==
    IF r = <<>> THEN 0 ELSE (IF r[1] = "frame" THEN 1 ELSE 0) + FrameCount(Tail(r))

\* the same over the readers of drivers 1..n
RECURSIVE FramesTotal(_)
FramesTotal(n) == IF n = 0 THEN 0 ELSE FrameCount(reads[n]) + FramesTotal(n - 1)

\* C12: the background reader of a connection has terminated exactly when its
\* last ReadFrame returned io.EOF, and it read nothing after an EOF; another
\* error leaves it running; recvFrames is the number of frames the readers
\* read successfully.
C12_ReaderLoop ==
    /\ \A d \in Conns :
          LET r == reads[d] IN
          /\ reader[d] = "none" => r = <<>>
          /\ reader[d] = "done" <=> (r # <<>> /\ r[Len(r)] = "EOF")
          /\ \A i \in 1..Len(r) : r[i] = "EOF" => i = Len(r)
    /\ recvFrames = FramesTotal(numConns)

\* a reader met an error other than EOF and then read a frame
C12_Witness ==
    \E d \in Conns :
        /\ Len(reads[d]) >= 2
        /\ reads[d][1] = "other"
        /\ reads[d][2] = "frame"
        /\ reader[d] = "running"

\* C13 (as claimed): the background reader of a driver is started after the
\* driver's HEADERS write and before its first CONTINUATION write.
C13_ReaderAfterHeadersAsClaimed ==
    \A d \in Conns :
        /\ reader[d] # "none" => Len(attempts[d]) >= 1
        /\ reader[d] = "none" => Len(attempts[d]) <= 1

\* C13 (amended): the background reader of a driver is started after the
\* handshake is complete and before the driver's HEADERS write, hence before
\* every CONTINUATION write: the reader runs whenever the driver has issued a
\* write or is about to.
C13_ReaderBeforeHeaders ==
    \A d \in Conns :
        /\ attempts[d] # <<>> => reader[d] # "none"
        /\ pc[d] \in {"sendHeader", "newTimer", "select", "sendCont", "sendFinal"}
                        \cup Returning => reader[d] # "none"
        /\ reader[d] # "none" => pc[d] \notin InHandshake \cup {"idle", "spawn", "fatal"}

\* a driver whose reader is running is about to send its HEADERS frame
C13_Witness ==
    \E d \in Conns :
        /\ reader[d] = "running"
        /\ pc[d] = "sendHeader"
        /\ attempts[d] = <<>>

\* C14: the k-th CONTINUATION write of a driver carries index k-1, whether or
\* not earlier writes succeeded; the final frame is such a write, so its index
\* is greater than that of every earlier CONTINUATION.
C14_IndexIncreases ==
    \A d \in Conns :
        LET a == attempts[d] IN
        /\ \A i \in 2..Len(a) : a[i].frame = "CONTINUATION" /\ a[i].index = i - 2
        /\ \A i, j \in 2..Len(a) : i < j => a[i].index < a[j].index

\* a driver sent a flood frame after a failed one, and the final frame
C14_Witness ==
    \E d \in Conns :
        /\ Len(attempts[d]) >= 4
        /\ attempts[d][2].err = "other"
        /\ IsFinal(attempts[d][4])

\* C15: under fair scheduling, unless a handshake fails, every driver returns
\* and the summary is printed; and a driver that left its loop without a
\* broken pipe left it through the timer branch.
C15_Termination ==
    /\ [](\A d \in Conns :
            (pc[d] \in Returning /\ ~BrokenPipe(d)) => timer[d] = "drained")
    /\ <>(\/ \E d \in Conns : pc[d] = "fatal"
          \/ summary # <<>> /\ \A d \in Conns : pc[d] = "returned")

\* the summary is printed after every driver of a run of several left its loop
\* through the timer branch and returned
C15_Witness ==
    /\ summary # <<>>
    /\ numConns >= 2
    /\ \A d \in Conns : pc[d] = "returned" /\ timer[d] = "drained"

\* C16: a driver about to send on doneChan finds it open and with room, so the
\* send neither blocks nor panics; the channel never holds more than its
\* capacity, and it is closed only once every driver has returned.
C16_DoneChanSafe ==
    /\ doneChanLen <= DoneChanCap
    /\ exited # "panic"
    /\ \A d \in Conns :
          pc[d] = "deferDone" => (~doneChanClosed /\ doneChanLen < DoneChanCap)
    /\ doneChanClosed => \A d \in Conns : pc[d] = "returned"

\* the channel is full: every driver of a run of several has published
C16_Witness ==
    /\ numConns >= 2
    /\ doneChanLen = numConns
    /\ ~doneChanClosed
    /\ \E d \in Conns : pc[d] = "wgDone"

\* C17: when the summary has been printed no background reader is running, and
\* the received total it printed is the number of frames the readers read.
C17_ReadersDoneAtSummary ==
    summary # <<>> =>
        /\ \A d \in Conns : reader[d] # "running"
        /\ summary[1].received = FramesTotal(numConns)

\* C18: a select that finds the timer expired takes the timer branch: once the
\* timer has fired the driver starts no flood write, and the one that was in
\* progress is followed by the select that takes the timer branch.
C18_NoFloodAfterExpiry ==
    [][\A d \in Conns :
          /\ (timer[d] = "fired" /\ pc[d] # "sendCont") => pc'[d] # "sendCont"
          /\ (timer[d] = "fired" /\ pc[d] = "select" /\ pc'[d] # pc[d]) =>
                pc'[d] = "sendFinal"
          /\ (timer[d] = "fired" /\ pc[d] = "sendCont" /\ pc'[d] # pc[d]) =>
                pc'[d] \in {"select", "deferDone"}]_vars

\* the timer has fired and the driver is back at the select after flood writes
C18_Witness ==
    \E d \in Conns :
        /\ timer[d] = "fired"
        /\ pc[d] = "select"
        /\ Len(attempts[d]) >= 2

====
